---- MODULE Spec2Model ----
(***************************************************************************)
(* The travelling-salesman notebook routing-part1.ipynb as a state machine. *)
(* One run of the notebook executes its code cells top to bottom: the cost  *)
(* matrix is filled from the travel-time lookups, the MILP model (arc       *)
(* variables x, rank variables u, degree constraints c_1_4 and c_1_5, MTZ   *)
(* constraints c_1_13, rank bounds c_1_14) is built, the diagonal of the    *)
(* cost matrix is overwritten with 1e+12, the objective is built and        *)
(* minimised, and the solution is read back as an objective value and an    *)
(* edge list.  An exception raised in a cell ends the run.                  *)
(*                                                                         *)
(* Numbers.  A duration or a cost is a record [hi, lo].  For a duration in  *)
(* seconds it stands for hi*(3600*10^12) + lo seconds, for a cost in hours  *)
(* for hi*10^12 + lo hours, so that 1e+12 hours is [hi |-> 1, lo |-> 0].    *)
(* Sums are componentwise and the order is lexicographic, which is the      *)
(* order of the numbers as long as the lo parts add up to less than 10^12.  *)
(***************************************************************************)
EXTENDS Integers, FiniteSets, Sequences, TLC

\* Largest number of locations of a run in which travel times vary.
MaxN == 3
\* Largest number of locations of a run on clear roads.
MaxClear == 4
\* Largest number of location pairs whose travel time is not the quick one.
MaxDev == 2
\* Largest number of arc variables whose reported value is not exactly 0 or 1.
MaxNear == 1
\* n=len(location) for the notebook's own list of locations
Locations == 5
\* cost[i,j]=get_distance(...)/3600
SecondsPerHour == 3600

\* Python's None, and a value that is there: a sequence of no or one element
None == << >>

Some(v) == <<v>>

The(o) == o[1]

VARIABLES n, cost, k, model, loss, solution, status, objective_value, edges, pc, err

vars == <<n, cost, k, model, loss, solution, status, objective_value, edges, pc, err>>

----------------------------------------------------------------------------
(* Arithmetic on [hi, lo] numbers *)

Num(h, l) == [hi |-> h, lo |-> l]

Zero == Num(0, 0)

Plus(a, b) == Num(a.hi + b.hi, a.lo + b.lo)

Leq(a, b) == a.hi < b.hi \/ (a.hi = b.hi /\ a.lo <= b.lo)

\* c * a for c in {0, 1}, the values of a binary variable
Times01(c, a) == IF c = 1 THEN a ELSE Zero

RECURSIVE SumOver(_, _)
SumOver(S, f) ==
  IF S = {} THEN Zero
  ELSE LET p == CHOOSE q \in S : TRUE IN Plus(f[p], SumOver(S \ {p}, f))

RECURSIVE IntSum(_, _)
IntSum(S, f) ==
  IF S = {} THEN 0
  ELSE LET p == CHOOSE q \in S : TRUE IN f[p] + IntSum(S \ {p}, f)

----------------------------------------------------------------------------
(* Cells 9-14: locations, get_distance, the cost matrix *)

\* lbl=range(len(location))
lbl(m) == 0 .. (m - 1)

Keys(m) == lbl(m) \X lbl(m)

\* np.zeros((n,n))
zeros(m) == [p \in Keys(m) |-> Zero]

\* the pair (i,j) the nested loops of cell 14 reach at their c-th iteration
LoopPair(c, m) == <<c \div m, c % m>>

\* the travel time between two distinct locations when the road is clear
Quick == Num(0, SecondsPerHour)

\* the durations (seconds) the lookup can answer for a pair of locations: none
\* for a location and itself, a quick or a slow drive, or a time of more than
\* 10^12 hours between distinct ones
Durations(p) ==
  IF p[1] = p[2] THEN {Zero}
  ELSE {Quick, Num(0, 2 * SecondsPerHour), Num(2, 0)}

\* get_distance(...)/3600 : seconds to hours
Hours(d) == Num(d.hi, d.lo \div SecondsPerHour)

\* the pairs already looked up whose travel time is not the quick one
Slow(c, m, k0) ==
  {q \in 0 .. (k0 - 1) :
     /\ LoopPair(q, m)[1] # LoopPair(q, m)[2]
     /\ c[LoopPair(q, m)] # Hours(Quick)}

\* the notebook before cell 14 fills the matrix, the number of locations being
\* one of sizes
StartWith(sizes) ==
  /\ n \in sizes
  /\ cost = zeros(n)
  /\ k = 0
  /\ model = [x |-> {}, u |-> {}, ct |-> {}, obj |-> None]
  /\ loss = None
  /\ solution = None
  /\ status = "NotRun"
  /\ objective_value = None
  /\ edges = None
  /\ pc = "cost"
  /\ err = "none"

\* the same for at most top locations
Start(top) == StartWith(0 .. top)

Init == Start(MaxN)

InitClear == Start(MaxClear)

\* one iteration of cell 14 in which the lookup answers, at most dev of the
\* answers of a run being other than the quick one
Lookup(dev) ==
  /\ pc = "cost"
  /\ k < n * n
  /\ \E d \in Durations(LoopPair(k, n)) :
       /\ (d # Quick /\ d # Zero) => Cardinality(Slow(cost, n, k)) < dev
       /\ cost' = [cost EXCEPT ![LoopPair(k, n)] = Hours(d)]
  /\ k' = k + 1
  /\ UNCHANGED <<n, model, loss, solution, status, objective_value, edges, pc, err>>

GetDistance == Lookup(MaxDev)

\* the same on clear roads
GetDistanceClear == Lookup(0)

\* a slip: the failure is caught and the loop goes on, the entry left as it is
GetDistanceSkips ==
  /\ pc = "cost"
  /\ k < n * n
  /\ k' = k + 1
  /\ err' = "CostUnavailable"
  /\ UNCHANGED <<n, cost, model, loss, solution, status, objective_value, edges, pc>>

\* one iteration of cell 14 in which the lookup raises: no handler anywhere, the
\* run ends in the exception
GetDistanceRaises ==
  /\ pc = "cost"
  /\ k < n * n
  /\ pc' = "raised"
  /\ err' = "CostUnavailable"
  /\ UNCHANGED <<n, cost, k, model, loss, solution, status, objective_value, edges>>

\* the loops of cell 14 are over
CostDone ==
  /\ pc = "cost"
  /\ k = n * n
  /\ pc' = "vars"
  /\ UNCHANGED <<n, cost, k, model, loss, solution, status, objective_value, edges, err>>

----------------------------------------------------------------------------
(* Cells 29-41: the model *)

\* cells 31, 33: binary_var_dict over all (i,j), integer_var_dict over all i
DeclareVars ==
  /\ pc = "vars"
  /\ model' = [model EXCEPT !.x = Keys(n), !.u = lbl(n)]
  /\ pc' = "degree"
  /\ UNCHANGED <<n, cost, k, loss, solution, status, objective_value, edges, err>>

\* def exclude(A,i)
exclude(A, i) == {a \in A : a # i}

\* sum(x[i,j] for j in lbl)==1 for i in lbl
c_1_4(m) == {[kind |-> "c_1_4", i |-> i, j |-> 0, n |-> m] : i \in lbl(m)}

\* a slip: line 371 repeats the sum over j of line 370
c_1_5_rows(m) == {[kind |-> "c_1_4", i |-> j, j |-> 0, n |-> m] : j \in lbl(m)}

\* sum(x[i,j] for i in lbl)==1 for j in lbl
c_1_5(m) == {[kind |-> "c_1_5", i |-> 0, j |-> j, n |-> m] : j \in lbl(m)}

\* a slip: k>i for k!=i, one constraint per unordered pair
c_1_13_upper(m) ==
  UNION {{[kind |-> "c_1_13", i |-> i, j |-> j, n |-> m] :
            j \in {j0 \in exclude(lbl(m), 0) : j0 > i}} :
         i \in exclude(lbl(m), 0)}

\* a slip: for i in lbl for j in lbl, neither node 0 nor j = i left out
c_1_13_every(m) ==
  UNION {{[kind |-> "c_1_13", i |-> i, j |-> j, n |-> m] : j \in lbl(m)} :
         i \in lbl(m)}

\* a slip: node 0 not excluded
c_1_13_all(m) ==
  UNION {{[kind |-> "c_1_13", i |-> i, j |-> j, n |-> m] :
            j \in {j0 \in lbl(m) : j0 # i}} :
         i \in lbl(m)}

\* u[i]-u[j]+n*x[i,j]<=n-1 for i in exclude(lbl,0), j in exclude(lbl,0), j!=i
c_1_13(m) ==
  UNION {{[kind |-> "c_1_13", i |-> i, j |-> j, n |-> m] :
            j \in {j0 \in exclude(lbl(m), 0) : j0 # i}} :
         i \in exclude(lbl(m), 0)}

\* u[i]<=n-1 for i in lbl
c_1_14(m) == {[kind |-> "c_1_14", i |-> i, j |-> 0, n |-> m] : i \in lbl(m)}

\* what a linear constraint of the model says of an assignment
Holds(c, x, u) ==
  CASE c.kind = "c_1_4" -> IntSum({c.i} \X lbl(c.n), x) = 1
    [] c.kind = "c_1_5" -> IntSum(lbl(c.n) \X {c.j}, x) = 1
    [] c.kind = "c_1_13" -> u[c.i] - u[c.j] + c.n * x[<<c.i, c.j>>] <= c.n - 1
    [] c.kind = "c_1_14" -> u[c.i] <= c.n - 1

\* cell 37
AddDegree ==
  /\ pc = "degree"
  /\ model' = [model EXCEPT !.ct = @ \cup c_1_4(n) \cup c_1_5(n)]
  /\ pc' = "mtz"
  /\ UNCHANGED <<n, cost, k, loss, solution, status, objective_value, edges, err>>

\* cell 41
AddMTZ ==
  /\ pc = "mtz"
  /\ model' = [model EXCEPT !.ct = @ \cup c_1_13(n) \cup c_1_14(n)]
  /\ pc' = "diag"
  /\ UNCHANGED <<n, cost, k, loss, solution, status, objective_value, edges, err>>

----------------------------------------------------------------------------
(* Cells 45-49: the objective *)

\* 1e+12
Sentinel == Num(1, 0)

\* a slip: cell 45 left out before the objective is built
SetDiagonalForgotten ==
  /\ pc = "diag"
  /\ pc' = "loss"
  /\ UNCHANGED <<n, cost, k, model, loss, solution, status, objective_value, edges, err>>

\* a slip: cost[i,:]=1e+12, the whole row overwritten
SetDiagonalRows ==
  /\ pc = "diag"
  /\ cost' = [p \in Keys(n) |-> Sentinel]
  /\ pc' = "loss"
  /\ UNCHANGED <<n, k, model, loss, solution, status, objective_value, edges, err>>

\* cell 45: for i in range(n): cost[i,i]=1e+12
SetDiagonal ==
  /\ pc = "diag"
  /\ cost' = [p \in Keys(n) |-> IF p[1] = p[2] THEN Sentinel ELSE cost[p]]
  /\ pc' = "loss"
  /\ UNCHANGED <<n, k, model, loss, solution, status, objective_value, edges, err>>

\* tuple order of Python: (a,b) < (c,d)
KeyLess(p, q) == p[1] < q[1] \/ (p[1] = q[1] /\ p[2] < q[2])

\* sorted(x.keys()) : the position (from 0) of a key in the sorted list
SortedIndex(S, p) == Cardinality({q \in S : KeyLess(q, p)})

\* a slip: cost.flatten('F'), column-major
flatten_F(c, m) == [f \in 0 .. (m * m - 1) |-> c[<<f % m, f \div m>>]]

\* cost.flatten() : row-major, entry c of the flat array
flatten(c, m) == [f \in 0 .. (m * m - 1) |-> c[<<f \div m, f % m>>]]

\* model.dot([x[k] for k in sorted(x.keys())], cost.flatten()) : the coefficient
\* of each variable
dot(S, flat) == [p \in S |-> flat[SortedIndex(S, p)]]

\* cell 47
BuildLoss ==
  /\ pc = "loss"
  /\ loss' = Some(dot(model.x, flatten(cost, n)))
  /\ pc' = "minimize"
  /\ UNCHANGED <<n, cost, k, model, solution, status, objective_value, edges, err>>

\* cell 49: model.minimize(loss)
Minimize ==
  /\ pc = "minimize"
  /\ model' = [model EXCEPT !.obj = loss]
  /\ pc' = "solve"
  /\ UNCHANGED <<n, cost, k, loss, solution, status, objective_value, edges, err>>

----------------------------------------------------------------------------
(* Cell 51: model.solve(). The solver is CPLEX, outside the notebook: it is  *)
(* modelled by what a MILP solver answers for the model it is given.        *)

Constraints(m) == c_1_4(m) \cup c_1_5(m) \cup c_1_13(m) \cup c_1_14(m)

\* integer_var_dict(lb=0): the ranks the search looks at, one more than any
\* constraint of the model allows
URange(m) == 0 .. m

\* a matrix that is r on row i and 0 elsewhere, a rank vector that is v everywhere
RowAt(m, i, r) == [p \in Keys(m) |-> IF p[1] = i THEN r[p[2]] ELSE 0]

Flat(m, v) == [i \in lbl(m) |-> v]

\* the rows a binary matrix may have at i: the constraints on row i alone
Rows(ct, m, i) ==
  {r \in [lbl(m) -> {0, 1}] :
     \A c \in ct : (c.kind = "c_1_4" /\ c.i = i) => Holds(c, RowAt(m, i, r), Flat(m, 0))}

FromRows(m, g) == [p \in Keys(m) |-> g[p[1]][p[2]]]

\* the entry of a table (a set of <<key, value>> pairs) at a key
At(T, key) == (CHOOSE e \in T : e[1] = key)[2]

\* the binary matrices that satisfy every constraint on x alone
FeasibleX(ct, m) ==
  LET R == {<<i, Rows(ct, m, i)>> : i \in lbl(m)}
      All == UNION {e[2] : e \in R}
      cols == {c \in ct : c.kind = "c_1_5"}
      G == {g \in [lbl(m) -> All] :
              /\ \A i \in lbl(m) : g[i] \in At(R, i)
              /\ \A c \in cols : Holds(c, FromRows(m, g), Flat(m, 0))}
  IN {FromRows(m, g) : g \in G}

\* the ranks u[i] may take: the constraints on u[i] alone
Values(ct, m, i) ==
  {v \in URange(m) :
     \A c \in ct : (c.kind = "c_1_14" /\ c.i = i) => Holds(c, zeros(m), Flat(m, v))}

\* the rank vectors that satisfy every constraint on one rank alone
Boxed(ct, m) ==
  LET V == {<<i, Values(ct, m, i)>> : i \in lbl(m)}
      All == UNION {e[2] : e \in V}
  IN {u \in [lbl(m) -> All] : \A i \in lbl(m) : u[i] \in At(V, i)}

\* the assignments (x, u) that satisfy every constraint in ct, grouped by x:
\* the set of [x, us] with us the non-empty set of rank vectors that go with x
Solutions(ct, m) ==
  LET B == Boxed(ct, m)
      mtz == {c \in ct : c.kind = "c_1_13"}
      S == {[x |-> x, us |-> {u \in B : \A c \in mtz : Holds(c, x, u)}] :
              x \in FeasibleX(ct, m)}
  IN {s \in S : s.us # {}}

\* Solutions(Constraints(m), m) for every size, computed once
SolutionTable ==
  {<<m, Solutions(Constraints(m), m)>> : m \in 0 .. (IF MaxN > MaxClear THEN MaxN ELSE MaxClear)}

\* the assignments that satisfy the model
Feasible(mdl, m) ==
  IF mdl.ct = Constraints(m)
  THEN (CHOOSE e \in SolutionTable : e[1] = m)[2]
  ELSE Solutions(mdl.ct, m)

\* the value of a linear objective at x
Value(obj, x) == SumOver(DOMAIN obj, [p \in DOMAIN obj |-> Times01(x[p], obj[p])])

\* the feasible x of least objective value
Optimal(mdl, m) ==
  LET F == {<<Value(The(mdl.obj), s.x), s>> : s \in Feasible(mdl, m)}
  IN {e[2] : e \in {e \in F : \A t \in F : Leq(e[1], t[1])}}

\* the solver proves an optimum: solve() returns that solution
Solve ==
  /\ pc = "solve"
  /\ \E s \in Optimal(model, n) : \E u \in s.us :
       solution' = Some([x |-> s.x, u |-> u, near |-> {}])
  /\ status' = "Optimal"
  /\ pc' = "objective_value"
  /\ UNCHANGED <<n, cost, k, model, loss, objective_value, edges, err>>

\* the solver stops at a limit while it holds a solution that satisfies the
\* model: solve() returns that solution
SolveIncumbent ==
  /\ pc = "solve"
  /\ \E s \in Feasible(model, n) : \E u \in s.us :
       solution' = Some([x |-> s.x, u |-> u, near |-> {}])
  /\ status' = "TimedOut"
  /\ pc' = "objective_value"
  /\ UNCHANGED <<n, cost, k, model, loss, objective_value, edges, err>>

\* the solver proves an optimum and reports it as CPLEX reports floats: up to
\* MaxNear of the arc variables hold a value within the integrality tolerance of
\* their 0 or 1 and not that number itself (docplex does not round by default)
SolveWithinTolerance ==
  /\ pc = "solve"
  /\ \E s \in Optimal(model, n) : \E u \in s.us :
       \E q \in {r \in SUBSET model.x : Cardinality(r) <= MaxNear} :
          solution' = Some([x |-> s.x, u |-> u, near |-> q])
  /\ status' = "Optimal"
  /\ pc' = "objective_value"
  /\ UNCHANGED <<n, cost, k, model, loss, objective_value, edges, err>>

\* the solver ends with no solution (a limit, a failure, or no assignment
\* satisfies the model): solve() returns None
SolveFails ==
  /\ pc = "solve"
  /\ status' \in {"TimedOut", "Error"} \cup
                 (IF Feasible(model, n) = {} THEN {"Infeasible"} ELSE {})
  /\ solution' = None
  /\ pc' = "objective_value"
  /\ UNCHANGED <<n, cost, k, model, loss, objective_value, edges, err>>

----------------------------------------------------------------------------
(* Cells 53-63: reading the solution *)

\* cell 53: model.objective_value raises when the model holds no solution
\* (cells 55 and 57 only print)
ObjectiveValue ==
  /\ pc = "objective_value"
  /\ IF solution = None
     THEN /\ pc' = "raised"
          /\ err' = "DOcplexException"
          /\ UNCHANGED objective_value
     ELSE /\ objective_value' = Some(Value(The(model.obj), The(solution).x))
          /\ pc' = "get_edges"
          /\ UNCHANGED err
  /\ UNCHANGED <<n, cost, k, model, loss, solution, status, edges>>

\* (k for k,v in x.items() if v.solution_value==1) : an exact comparison of the
\* reported float with 1
get_edges(keys, sol) == {p \in keys : sol.x[p] = 1 /\ p \notin sol.near}

\* cell 63: G.add_edges_from(get_edges(x))
AddEdges ==
  /\ pc = "get_edges"
  /\ edges' = Some(get_edges(model.x, The(solution)))
  /\ pc' = "done"
  /\ UNCHANGED <<n, cost, k, model, loss, solution, status, objective_value, err>>

----------------------------------------------------------------------------

\* the cells that do not depend on how the solver ends
Cells ==
  \/ GetDistanceRaises
  \/ CostDone
  \/ DeclareVars
  \/ AddDegree
  \/ AddMTZ
  \/ SetDiagonal
  \/ BuildLoss
  \/ Minimize
  \/ ObjectiveValue
  \/ AddEdges

\* a run of the notebook: the solver runs to the end or fails
Next == GetDistance \/ Cells \/ Solve \/ SolveFails

Spec == Init /\ [][Next]_vars

\* a run on clear roads in which the solver may stop at any assignment that
\* satisfies the model
NextAny == GetDistanceClear \/ Cells \/ SolveIncumbent \/ SolveFails

SpecAny == InitClear /\ [][NextAny]_vars

\* the solution print_solution shows for the notebook's own five locations;
\* it prints the variables that are not 0
RecordedSolution ==
  [x |-> [p \in Keys(Locations) |->
            IF p \in {<<0, 3>>, <<1, 4>>, <<2, 1>>, <<3, 2>>, <<4, 0>>} THEN 1 ELSE 0],
   u |-> [i \in lbl(Locations) |->
            CASE i = 1 -> 2 [] i = 2 -> 1 [] i = 4 -> 3 [] OTHER -> 0],
   near |-> {}]

\* solve() as it went in the recorded run
SolveRecorded ==
  /\ pc = "solve"
  /\ n = Locations
  /\ solution' = Some(RecordedSolution)
  /\ status' = "Optimal"
  /\ pc' = "objective_value"
  /\ UNCHANGED <<n, cost, k, model, loss, objective_value, edges, err>>

\* the recorded run, and the same cells up to solve() on a shorter list
NextRecorded == GetDistanceClear \/ Cells \/ SolveRecorded

InitRecorded == Start(Locations)

SpecRecorded == InitRecorded /\ [][NextRecorded]_vars

\* the arcs of the round trip 0, 1, 2, 3, 0 through four locations
RingArcs == {<<0, 1>>, <<1, 2>>, <<2, 3>>, <<3, 0>>}

\* four locations on a one-way ring road: the durations (seconds) the lookup can
\* answer along the ring and across it
RingDurations(p) ==
  IF p[1] = p[2] THEN {Zero}
  ELSE IF p \in RingArcs THEN {Num(0, 2 * SecondsPerHour), Num(0, 3 * SecondsPerHour)}
  ELSE {Num(0, 5 * SecondsPerHour), Num(0, 4 * SecondsPerHour)}

\* the pairs across the ring already looked up that took less than five hours
Shortcuts(c, m, k0) ==
  {q \in 0 .. (k0 - 1) :
     /\ LoopPair(q, m)[1] # LoopPair(q, m)[2]
     /\ LoopPair(q, m) \notin RingArcs
     /\ c[LoopPair(q, m)] # Num(0, 5)}

\* one iteration of cell 14 on the ring road, at most MaxDev shortcuts in a run
GetDistanceRing ==
  /\ pc = "cost"
  /\ k < n * n
  /\ \E d \in RingDurations(LoopPair(k, n)) :
       /\ d = Num(0, 4 * SecondsPerHour) => Cardinality(Shortcuts(cost, n, k)) < MaxDev
       /\ cost' = [cost EXCEPT ![LoopPair(k, n)] = Hours(d)]
  /\ k' = k + 1
  /\ UNCHANGED <<n, model, loss, solution, status, objective_value, edges, pc, err>>

\* a run on four locations of a ring road
NextRing == GetDistanceRing \/ Cells \/ Solve

InitRing == StartWith({4})

SpecRing == InitRing /\ [][NextRing]_vars

\* the roads i -> j, i < j, already looked up whose travel time is not the quick one
SlowRoads(c, m, k0) ==
  {q \in Slow(c, m, k0) : LoopPair(q, m)[1] < LoopPair(q, m)[2]}

\* one iteration of cell 14 where every road takes the same time in both
\* directions, at most MaxDev of the roads of a run being other than quick
GetDistanceSymmetric ==
  /\ pc = "cost"
  /\ k < n * n
  /\ LET p == LoopPair(k, n) IN
       \E d \in Durations(p) :
         /\ p[2] < p[1] => Hours(d) = cost[<<p[2], p[1]>>]
         /\ (p[1] < p[2] /\ d # Quick) => Cardinality(SlowRoads(cost, n, k)) < MaxDev
         /\ cost' = [cost EXCEPT ![p] = Hours(d)]
  /\ k' = k + 1
  /\ UNCHANGED <<n, model, loss, solution, status, objective_value, edges, pc, err>>

\* a run on two-way roads
NextSymmetric == GetDistanceSymmetric \/ Cells \/ Solve

SpecSymmetric == Init /\ [][NextSymmetric]_vars

\* a run on clear roads in which the solver reports floats
NextTolerance == GetDistanceClear \/ Cells \/ SolveWithinTolerance

SpecTolerance == Init /\ [][NextTolerance]_vars

----------------------------------------------------------------------------
(* Tours, cycles and degrees, for the properties below *)

Solved == solution # None

\* the arc values and the ranks of the solution solve() returned
sx == The(solution).x

su == The(solution).u

\* the orders in which a tour from node 0 can visit the other m-1 nodes
Orders(m) ==
  {s \in [1 .. (m - 1) -> exclude(lbl(m), 0)] :
     \A a, b \in 1 .. (m - 1) : s[a] = s[b] => a = b}

\* the arcs of the directed Hamiltonian cycle 0, s[1], ..., s[m-1], 0
TourArcs(m, s) ==
  {<<0, s[1]>>, <<s[m - 1], 0>>} \cup {<<s[a], s[a + 1]>> : a \in 1 .. (m - 2)}

\* the sum of the costs of the arcs of a cycle
ArcsCost(c, A) == SumOver(A, c)

\* the binary matrix that selects exactly the arcs A
Selecting(m, A) == [p \in Keys(m) |-> IF p \in A THEN 1 ELSE 0]

\* the node reached from node 0 after t steps along the arcs E
RECURSIVE Walk(_, _)
Walk(E, t) ==
  IF t = 0 THEN 0
  ELSE LET at == Walk(E, t - 1) IN CHOOSE j \in {p[2] : p \in E} : <<at, j>> \in E

\* E is one directed cycle through all m nodes
SingleCycle(E, m) ==
  /\ Cardinality(E) = m
  /\ \A i \in lbl(m) : \E j \in lbl(m) : <<i, j>> \in E
  /\ {Walk(E, t) : t \in 0 .. (m - 1)} = lbl(m)
  /\ Walk(E, m) = 0

\* the degrees of a node in an edge list
EdgesOut(E, i) == Cardinality({p \in E : p[1] = i})

EdgesIn(E, j) == Cardinality({p \in E : p[2] = j})

OutDegree(keys, x, i) == Cardinality({p \in keys : p[1] = i /\ x[p] = 1})

InDegree(keys, x, j) == Cardinality({p \in keys : p[2] = j /\ x[p] = 1})

\* x selects a cycle of exactly len arcs through len distinct nodes of S
HasCycle(x, S, len) ==
  \E s \in [1 .. len -> S] :
    /\ \A a, b \in 1 .. len : s[a] = s[b] => a = b
    /\ \A a \in 1 .. len : x[<<s[a], s[(a % len) + 1]>>] = 1

----------------------------------------------------------------------------
(* The claims *)

\* C1 (as stated): for n >= 2 the least objective value of the model is the
\* least total cost of a directed Hamiltonian cycle.
C1_MinimumIsBestTour ==
  (status = "Optimal" /\ objective_value # None /\ n >= 2) =>
     /\ \E s \in Orders(n) : The(objective_value) = ArcsCost(cost, TourArcs(n, s))
     /\ \A s \in Orders(n) : Leq(The(objective_value), ArcsCost(cost, TourArcs(n, s)))

\* C2 (as stated): for n >= 2 the arcs selected by an optimal solution are one
\* directed cycle of length n: the walk from node 0 visits every node once and
\* is back at node 0 after n steps.
C2_OptimalIsSingleCycle ==
  (status = "Optimal" /\ edges # None /\ n >= 2) => SingleCycle(The(edges), n)

\* C3: for n >= 2, in an optimal solution every node has exactly one selected
\* outgoing and exactly one selected incoming arc, self-arcs counted.
C3_DegreesAreOne ==
  (status = "Optimal" /\ Solved /\ n >= 2) =>
     \A i \in lbl(n) : OutDegree(model.x, sx, i) = 1 /\ InDegree(model.x, sx, i) = 1

\* C3 witness: an optimal solution on three or more nodes that selects a self-arc
C3_Witness ==
  status = "Optimal" /\ Solved /\ n >= 3 /\ \E i \in lbl(n) : sx[<<i, i>>] = 1

\* C4 (as stated): no assignment that satisfies the model selects a cycle, of any
\* length >= 1, that lies within the nodes 1..n-1.
C4_NoCycleOffNodeZero ==
  Solved => \A len \in 1 .. (n - 1) : ~HasCycle(sx, exclude(lbl(n), 0), len)

\* C4 (amended): no assignment that satisfies the model selects a cycle of two
\* or more arcs that lies within the nodes 1..n-1.
C4_NoSubtourOffNodeZero ==
  Solved => \A len \in 2 .. (n - 1) : ~HasCycle(sx, exclude(lbl(n), 0), len)

\* C4 witness: an assignment on three or more nodes that satisfies the model and
\* selects a self-arc at a node other than 0
C4_Witness ==
  Solved /\ n >= 3 /\ \E i \in exclude(lbl(n), 0) : sx[<<i, i>>] = 1

\* C5: for n >= 2 every directed Hamiltonian cycle, taken as an arc selection,
\* has ranks with which it satisfies every constraint of the model.
C5_ToursAreFeasible ==
  (pc = "solve" /\ n >= 2) =>
     \A s \in Orders(n) :
        \E f \in Feasible(model, n) : f.x = Selecting(n, TourArcs(n, s)) /\ f.us # {}

\* C5 witness: the solver returned a directed Hamiltonian cycle on three or more
\* nodes together with its ranks
C5_Witness ==
  Solved /\ n >= 3 /\ SingleCycle(get_edges(model.x, The(solution)), n)

\* C6 (as stated): for n >= 3 no optimal solution selects a self-arc.
C6_NoSelfArcInOptimum ==
  (status = "Optimal" /\ Solved /\ n >= 3) => \A i \in lbl(n) : sx[<<i, i>>] = 0

\* C7 (as stated): in every assignment that satisfies the model the rank of every
\* node other than 0 is between 1 and n-1.
C7_RanksFromOne ==
  Solved => \A i \in exclude(lbl(n), 0) : 1 <= su[i] /\ su[i] <= n - 1

\* C8 (as stated): with fewer than two locations the run fails with
\* InfeasibleModelSize when the model is built; the solver is never invoked and
\* no tour is produced.
C8_SmallInputNeverSolved ==
  n < 2 => (status = "NotRun" /\ solution = None /\ edges = None)

\* C9: when a lookup fails the run ends there with CostUnavailable and no later
\* stage has run; an objective is only ever built from a matrix whose every entry
\* was looked up.
C9_LookupFailureEndsRun ==
  /\ err = "CostUnavailable" =>
        /\ pc = "raised"
        /\ model = [x |-> {}, u |-> {}, ct |-> {}, obj |-> None]
        /\ loss = None /\ status = "NotRun" /\ solution = None
        /\ objective_value = None /\ edges = None
  /\ loss # None => (k = n * n /\ err # "CostUnavailable")

\* C9 witness: a lookup failed after some entries were filled and before others
C9_Witness ==
  err = "CostUnavailable" /\ 0 < k /\ k + 1 < n * n

\* C10 (as stated): when the solver ends in a status other than Optimal nothing
\* is raised, no objective value is read and no edge list is produced.
C10_FailureIsAStatus ==
  status \in {"TimedOut", "Infeasible", "Unbounded", "Error"} =>
     /\ pc # "raised" /\ err = "none"
     /\ objective_value = None /\ edges = None

\* C11 (as stated): an edge set that does not have in-degree = out-degree = 1
\* at every node is never emitted: the extraction fails with MalformedSolution
\* instead.
C11_MalformedNeverEmitted ==
  (edges # None /\ n >= 2) =>
     \A i \in lbl(n) : EdgesOut(The(edges), i) = 1 /\ EdgesIn(The(edges), i) = 1

\* C12 (as stated): the edge list emitted for an assignment that satisfies the
\* model has no pair twice and no pair with source = target.
C12_NoDuplicateNoSelfLoop ==
  (edges # None /\ n >= 2) =>
     /\ Cardinality(The(edges)) = IntSum(model.x, sx)
     /\ \A p \in The(edges) : p[1] # p[2]

\* C13: the solution recorded for the five locations satisfies every constraint
\* of the model built for them, its edges walked from node 0 are the cycle
\* 0, 3, 2, 1, 4, 0, and the edge list has 5 edges, in-degree and out-degree 1
\* at every node and a walk that covers all 5 nodes.
C13_RecordedRunIsATour ==
  (solution = Some(RecordedSolution)) =>
     /\ \A c \in model.ct : Holds(c, sx, su)
     /\ \A p \in model.x : sx[p] \in {0, 1}
     /\ \A i \in model.u : su[i] >= 0
     /\ edges # None =>
          LET E == The(edges) IN
            /\ <<Walk(E, 0), Walk(E, 1), Walk(E, 2), Walk(E, 3), Walk(E, 4), Walk(E, 5)>>
                 = <<0, 3, 2, 1, 4, 0>>
            /\ Cardinality(E) = 5
            /\ \A i \in lbl(n) : EdgesOut(E, i) = 1 /\ EdgesIn(E, i) = 1
            /\ {Walk(E, t) : t \in 0 .. (n - 1)} = lbl(n)

C13_Witness == edges # None /\ solution = Some(RecordedSolution) /\ n = 5

\* the round trip along RingArcs takes 10 hours and every other directed
\* Hamiltonian cycle through the four locations at least 15
RoundTripMatrix ==
  /\ n = 4
  /\ ArcsCost(cost, RingArcs) = Num(0, 10)
  /\ \A s \in Orders(4) :
       TourArcs(4, s) # RingArcs => Leq(Num(0, 15), ArcsCost(cost, TourArcs(4, s)))

\* C14: for a 4-node matrix in which the cycle 0, 1, 2, 3, 0 costs 10 and every
\* other Hamiltonian cycle at least 15, every optimal solution selects exactly
\* the arcs (0,1), (1,2), (2,3), (3,0), and the objective value is 10.
C14_RoundTripIsTheOptimum ==
  (RoundTripMatrix /\ Solved /\ status = "Optimal") =>
     /\ sx = Selecting(4, RingArcs)
     /\ Value(The(model.obj), sx) = Num(0, 10)
     /\ objective_value # None => The(objective_value) = Num(0, 10)
     /\ edges # None => The(edges) = RingArcs

C14_Witness ==
  /\ RoundTripMatrix
  /\ status = "Optimal"
  /\ edges # None
  /\ \E s \in Orders(4) :
       TourArcs(4, s) # RingArcs /\ ArcsCost(cost, TourArcs(4, s)) = Num(0, 15)

\* the relabellings of m nodes that move another node into the place of node 0
Relabellings(m) ==
  {f \in [lbl(m) -> lbl(m)] : f[0] # 0 /\ \A a, b \in lbl(m) : f[a] = f[b] => a = b}

\* a matrix over the arcs, seen by the instance whose node i is the node f[i]
Relabel(M, f) == [p \in DOMAIN M |-> M[<<f[p[1]], f[p[2]]>>]]

\* the optimal arc selections of the model under the objective obj
OptimalX(obj) == {s.x : s \in Optimal([model EXCEPT !.obj = Some(obj)], n)}

\* C15 (as stated): for a symmetric cost matrix and a relabelling that moves
\* another node into the place of node 0, the optimal objective value is the
\* same and the optimal cycles of the relabelled instance are the relabelled
\* optimal cycles of the original.
C15_RelabellingKeepsOptimum ==
  (pc = "objective_value" /\ status = "Optimal" /\ n >= 2
     /\ \A p \in Keys(n) : cost[p] = cost[<<p[2], p[1]>>]) =>
     \A f \in Relabellings(n) :
        LET obj == The(model.obj)
            here == OptimalX(obj)
            there == OptimalX(Relabel(obj, f))
        IN /\ {Value(obj, x) : x \in here} = {Value(Relabel(obj, f), x) : x \in there}
           /\ there = {Relabel(x, f) : x \in here}

\* C16 (as stated): once cell 14 has filled the cost matrix no later step
\* changes any of its entries, the diagonal included.
C16_MatrixNeverModified == [][pc # "cost" => cost' = cost]_vars

\* C16 (amended): after cell 14 the entries off the diagonal never change, and
\* the diagonal entries change in one step only, the one between the building
\* of the constraints and the building of the objective (cell 45); from the
\* building of the objective on no entry changes.
C16_OnlyDiagonalRewritten ==
  [][pc # "cost" =>
       \A p \in Keys(n) : (p[1] # p[2] \/ pc # "diag") => cost'[p] = cost[p]]_vars

C16_Witness ==
  /\ pc = "solve"
  /\ n >= 2
  /\ \A i \in lbl(n) : cost[<<i, i>>] = Sentinel
  /\ \E p \in Keys(n) : p[1] # p[2] /\ cost[p] # Hours(Quick)

\* cells 29-41 have run: the variables and all constraints are in the model
ModelBuilt ==
  /\ pc \notin {"cost", "vars", "degree", "mtz"}
  /\ ~(pc = "raised" /\ err = "CostUnavailable")

\* the constraints of the model that came from one list of cells 37-41
OfKind(kind) == {c \in model.ct : c.kind = kind}

\* C17: for n >= 2 the model holds one MTZ constraint for each ordered pair
\* (i,j), i # j, of nodes other than 0 and no other MTZ constraint, hence
\* (n-1)(n-2) of them, with 2n degree constraints, n rank upper bounds, n*n
\* binary and n integer variables: 25, 5 and 27 constraints for n = 5.
C17_ConstraintCounts ==
  (ModelBuilt /\ n >= 2) =>
     /\ \A i, j \in lbl(n) :
          Cardinality({c \in OfKind("c_1_13") : c.i = i /\ c.j = j})
            = IF i # j /\ i # 0 /\ j # 0 THEN 1 ELSE 0
     /\ Cardinality(OfKind("c_1_13")) = (n - 1) * (n - 2)
     /\ Cardinality(OfKind("c_1_4")) + Cardinality(OfKind("c_1_5")) = 2 * n
     /\ Cardinality(OfKind("c_1_14")) = n
     /\ Cardinality(model.x) = n * n
     /\ Cardinality(model.u) = n
     /\ n = 5 => /\ Cardinality(model.x) = 25
                 /\ Cardinality(model.u) = 5
                 /\ Cardinality(model.ct) = 27

C17_Witness == ModelBuilt /\ n = 5 /\ Cardinality(model.ct) = 27

\* C18: the objective built by cell 47 gives each x[i,j] the coefficient
\* cost[i,j], so its value at a solution is the sum of cost[i,j] over the
\* selected arcs.
C18_CoefficientIsCost ==
  loss # None =>
     /\ \A p \in model.x : The(loss)[p] = cost[p]
     /\ Solved =>
          Value(The(model.obj), sx) = ArcsCost(cost, {p \in model.x : sx[p] = 1})

C18_Witness ==
  /\ Solved
  /\ n = 3
  /\ cost[<<0, 1>>] # cost[<<1, 0>>]
  /\ Cardinality({p \in model.x : sx[p] = 1}) = 3

\* the arcs the solution selects
Selected == {p \in model.x : sx[p] = 1}

C20_SelfArcCostsSentinel ==
  model.obj # None =>
     \A i \in lbl(n) :
        /\ The(model.obj)[<<i, i>>] = Sentinel
        /\ \A d \in Durations(<<i, i>>) : The(model.obj)[<<i, i>>] # Hours(d)

C20_Witness == pc = "solve" /\ n >= 2 /\ The(model.obj)[<<1, 1>>] = Sentinel

\* C21: for n >= 2 and a cost matrix of finite entries >= 0, some assignment
\* satisfies every constraint of the model and the objective is at least 0 at
\* every such assignment, so the solver never reports Infeasible or Unbounded.
C21_NeverInfeasibleOrUnbounded ==
  (n >= 2 /\ model.obj # None) =>
     /\ status \notin {"Infeasible", "Unbounded"}
     /\ pc = "solve" =>
          /\ Feasible(model, n) # {}
          /\ \A s \in Feasible(model, n) : Leq(Zero, Value(The(model.obj), s.x))

C21_Witness ==
  /\ n = 3
  /\ status = "Optimal"
  /\ Solved
  /\ \E p \in Keys(n) : p[1] # p[2] /\ cost[p] # Hours(Quick)

====
